---- MODULE Spec2Model ----
(***************************************************************************)
(* debuggo: DEBUG-driven namespace filter (src/debug.go).                  *)
(*                                                                         *)
(* Strings are sequences of one-character strings, so that splitting,      *)
(* trimming, prefix tests and key concatenation are computed character by  *)
(* character as the Go code computes them.                                 *)
(***************************************************************************)
EXTENDS Integers, Sequences, FiniteSets, TLC

(* ------------------------------ bounds --------------------------------- *)

\* largest number of comma-separated tokens of a DEBUG value of MatchSpec
MaxTokens == 2
\* largest number of colon-separated segments of a queried channel
MaxDepth == 3
\* number of goroutines that set DEBUG and call ReloadDebugSettings
NumReloaders == 2
\* number of goroutines that call IsEnabled or invoke an emitter
NumReaders == 1

(* ------------------------- strings (Go: strings) ----------------------- *)

RECURSIVE Split(_, _)
\* strings.Split(s, sep) for a one-character separator
Split(s, sep) ==
    IF \E i \in 1..Len(s) : s[i] = sep
    THEN LET i == CHOOSE k \in 1..Len(s) :
                      s[k] = sep /\ \A j \in 1..(k - 1) : s[j] # sep
         IN  <<SubSeq(s, 1, i - 1)>> \o Split(SubSeq(s, i + 1, Len(s)), sep)
    ELSE <<s>>

RECURSIVE Join(_, _)
\* strings.Join(parts, sep)
Join(parts, sep) ==
    IF parts = <<>> THEN <<>>
    ELSE IF Len(parts) = 1 THEN parts[1]
    ELSE parts[1] \o sep \o Join(Tail(parts), sep)

\* the white space strings.TrimSpace removes (the model's alphabet has the blank)
IsSpace(ch) == ch = " "

RECURSIVE TrimLeft(_)
TrimLeft(s) ==
    IF s # <<>> /\ IsSpace(s[1]) THEN TrimLeft(Tail(s)) ELSE s

RECURSIVE TrimRight(_)
TrimRight(s) ==
    IF s # <<>> /\ IsSpace(s[Len(s)]) THEN TrimRight(SubSeq(s, 1, Len(s) - 1)) ELSE s

\* strings.TrimSpace(s)
TrimSpace(s) == TrimRight(TrimLeft(s))

\* strings.HasPrefix(s, prefix)
HasPrefix(s, prefix) ==
    Len(s) >= Len(prefix) /\ SubSeq(s, 1, Len(prefix)) = prefix

(* ------------------------- map[string]bool ----------------------------- *)

\* make(map[string]bool); a nil map reads the same way
EmptyMap == [k \in {} |-> FALSE]

\* m[key] of a Go map: the zero value for an absent key
MapGet(m, key) == IF key \in DOMAIN m THEN m[key] ELSE FALSE

\* m[key] = val
MapPut(m, key, val) ==
    [k \in (DOMAIN m) \cup {key} |-> IF k = key THEN val ELSE m[k]]

(* ------------------------------ state ---------------------------------- *)

VARIABLES
    env,              \* value of the DEBUG environment variable
    debugNamespaces,  \* map[string]bool of include patterns
    negatedModules,   \* map[string]bool of exclude patterns
    wildcardEnabled,  \* bare "*" seen
    isInitialized,    \* parse-once flag
    started,          \* package init() has run
    writer,           \* goroutine holding debugMu.Lock, 0 for none
    pending,          \* goroutine inside debugMu.Lock() waiting for readers to leave
    readers,          \* goroutines holding debugMu.RLock
    pc,               \* position of each goroutine
    toks,             \* namespaces still to be ranged over by a parse
    module,           \* argument of a running IsEnabled / emitter call
    enabled,          \* local result of checkEnabled
    lines,            \* lines the running emitter call wrote to stderr
    ret,              \* result of the latest sequential IsEnabled call
    out,              \* the latest sequential reload or emitter call
    parsedFrom,       \* history: DEBUG value read by the latest parse
    overlap,          \* history: a reload ran during the emitter call
    fresh,            \* history: whose parse started since the reload call began
    pw,               \* the PrefixWriter in use: its Prefix and Ignores
    write,            \* the latest pw.Write call: its buffer p and results n, err
    stderr            \* what the latest pw.Write call printed to os.Stderr

vars == <<env, debugNamespaces, negatedModules, wildcardEnabled, isInitialized,
          started, writer, pending, readers, pc, toks, module, enabled, lines,
          ret, out, parsedFrom, overlap, fresh, pw, write, stderr>>

rules == <<debugNamespaces, negatedModules, wildcardEnabled>>
shared == <<debugNamespaces, negatedModules, wildcardEnabled, isInitialized>>
mutex == <<writer, pending, readers>>
locals == <<pc, toks, module, enabled, lines>>
history == <<parsedFrom, overlap, fresh>>
results == <<ret, out>>
prefixed == <<pw, write, stderr>>

\* the goroutines that call ReloadDebugSettings, those that call IsEnabled or
\* emitters, and all of them
Reloaders == DOMAIN toks
Readers == DOMAIN module
Threads == DOMAIN pc

None == [module |-> <<>>, called |-> FALSE, enabled |-> FALSE]

\* a []string: nil, or the slice of its elements
NilSlice == [isNil |-> TRUE, elems |-> <<>>]
Slice(xs) == [isNil |-> FALSE, elems |-> xs]

\* PrefixWriter{}: the zero value of the struct
ZeroWriter == [Prefix |-> <<>>, Ignores |-> NilSlice]

\* no Write call has been made on the writer in use
NoWrite == [called |-> FALSE, p |-> <<>>, n |-> 0, err |-> "nil"]

\* no sequential reload or emitter call is the latest call
NoOut == [call |-> "none", module |-> <<>>, lines |-> 0]

\* a rule set as a record
RuleSet(ns, neg, wc) ==
    [debugNamespaces |-> ns, negatedModules |-> neg, wildcardEnabled |-> wc]

\* the state a parse starts from (src/debug.go:33-35)
ResetRules == RuleSet(EmptyMap, EmptyMap, FALSE)

(* ------------------------------ parser --------------------------------- *)

\* variant: "*" is recorded as an ordinary namespace
ParseTokenNoStar(rs, raw) ==
    LET ns == TrimSpace(raw) IN
    IF ns = <<>> THEN rs
    ELSE IF HasPrefix(ns, <<"!">>)
    THEN LET trimmedNS == Tail(ns) IN
         [rs EXCEPT !.negatedModules = MapPut(@, trimmedNS, TRUE),
                    !.debugNamespaces = MapPut(@, trimmedNS, FALSE)]
    ELSE [rs EXCEPT !.debugNamespaces = MapPut(@, ns, TRUE)]

\* variant: an empty token is not skipped
ParseTokenKeepsEmpty(rs, raw) ==
    LET ns == TrimSpace(raw) IN
    IF HasPrefix(ns, <<"!">>)
    THEN LET trimmedNS == Tail(ns) IN
         [rs EXCEPT !.negatedModules = MapPut(@, trimmedNS, TRUE),
                    !.debugNamespaces = MapPut(@, trimmedNS, FALSE)]
    ELSE IF ns = <<"*">>
    THEN [rs EXCEPT !.wildcardEnabled = TRUE]
    ELSE [rs EXCEPT !.debugNamespaces = MapPut(@, ns, TRUE)]

\* variant: an exclude token only writes false to debugNamespaces
ParseTokenNoNegatedMap(rs, raw) ==
    LET ns == TrimSpace(raw) IN
    IF ns = <<>> THEN rs
    ELSE IF HasPrefix(ns, <<"!">>)
    THEN LET trimmedNS == Tail(ns) IN
         [rs EXCEPT !.debugNamespaces = MapPut(@, trimmedNS, FALSE)]
    ELSE IF ns = <<"*">>
    THEN [rs EXCEPT !.wildcardEnabled = TRUE]
    ELSE [rs EXCEPT !.debugNamespaces = MapPut(@, ns, TRUE)]

\* one iteration of the range loop of parseDebugEnv
\* variant: the token is taken as typed, blanks included
ParseTokenNoTrim(rs, raw) ==
    LET ns == raw IN
    IF ns = <<>> THEN rs
    ELSE IF HasPrefix(ns, <<"!">>)
    THEN LET trimmedNS == Tail(ns) IN
         [rs EXCEPT !.negatedModules = MapPut(@, trimmedNS, TRUE),
                    !.debugNamespaces = MapPut(@, trimmedNS, FALSE)]
    ELSE IF ns = <<"*">>
    THEN [rs EXCEPT !.wildcardEnabled = TRUE]
    ELSE [rs EXCEPT !.debugNamespaces = MapPut(@, ns, TRUE)]

ParseToken(rs, raw) ==
    LET ns == TrimSpace(raw) IN
    IF ns = <<>> THEN rs
    ELSE IF HasPrefix(ns, <<"!">>)
    THEN LET trimmedNS == Tail(ns) IN
         [rs EXCEPT !.negatedModules = MapPut(@, trimmedNS, TRUE),
                    !.debugNamespaces = MapPut(@, trimmedNS, FALSE)]
    ELSE IF ns = <<"*">>
    THEN [rs EXCEPT !.wildcardEnabled = TRUE]
    ELSE [rs EXCEPT !.debugNamespaces = MapPut(@, ns, TRUE)]

RECURSIVE ParseTokens(_, _)
\* the whole range loop over namespaces
ParseTokens(rs, namespaces) ==
    IF namespaces = <<>> THEN rs
    ELSE ParseTokens(ParseToken(rs, Head(namespaces)), Tail(namespaces))

\* the body of parseDebugEnv below the isInitialized test: the rule set it
\* leaves for DEBUG value debugValue, whatever the rule set was before
ParseValue(debugValue) ==
    IF debugValue = <<>> THEN ResetRules
    ELSE ParseTokens(ResetRules, Split(debugValue, ","))

\* variant: the return for an empty DEBUG value leaves isInitialized unset
parseDebugEnvEmptyUnset(flag, rs, debugValue) ==
    IF flag THEN [rules |-> rs, isInitialized |-> flag]
    ELSE IF debugValue = <<>>
    THEN [rules |-> ResetRules, isInitialized |-> flag]
    ELSE [rules |-> ParseTokens(ResetRules, Split(debugValue, ",")),
          isInitialized |-> TRUE]

\* parseDebugEnv() as one call: from flag isInitialized, rule set rs and DEBUG
\* value debugValue to the rule set and the flag it leaves
parseDebugEnv(flag, rs, debugValue) ==
    IF flag THEN [rules |-> rs, isInitialized |-> flag]
    ELSE IF debugValue = <<>>
    THEN [rules |-> ResetRules, isInitialized |-> TRUE]
    ELSE [rules |-> ParseTokens(ResetRules, Split(debugValue, ",")),
          isInitialized |-> TRUE]

(* ------------------------------ matcher -------------------------------- *)

\* parts[:i] joined with ":"
PrefixOf(parts, i) == Join(SubSeq(parts, 1, i), <<":">>)

\* variant: only the exact name is looked up
isNegatedExact(neg, mod) == MapGet(neg, mod)

\* variant: the loop stops before the full name (i < len(parts))
isNegatedStrict(neg, mod) ==
    \/ MapGet(neg, mod)
    \/ LET parts == Split(mod, ":") IN
       \E i \in 1..(Len(parts) - 1) :
           LET prefix == PrefixOf(parts, i) IN
           \/ MapGet(neg, prefix)
           \/ MapGet(neg, prefix \o <<"*">>)
           \/ MapGet(neg, prefix \o <<":", "*">>)

\* variant: only proper parents are looked up
isNegatedParents(neg, mod) ==
    LET parts == Split(mod, ":") IN
    \E i \in 1..(Len(parts) - 1) :
        LET prefix == PrefixOf(parts, i) IN
        \/ MapGet(neg, prefix)
        \/ MapGet(neg, prefix \o <<"*">>)
        \/ MapGet(neg, prefix \o <<":", "*">>)

\* isNegated(module) over the map neg
\* variant: of the wildcard spellings only P:* is looked up
isNegatedColonOnly(neg, mod) ==
    \/ MapGet(neg, mod)
    \/ LET parts == Split(mod, ":") IN
       \E i \in 1..Len(parts) :
           LET prefix == PrefixOf(parts, i) IN
           \/ MapGet(neg, prefix)
           \/ MapGet(neg, prefix \o <<":", "*">>)

isNegated(neg, mod) ==
    \/ MapGet(neg, mod)
    \/ LET parts == Split(mod, ":") IN
       \E i \in 1..Len(parts) :
           LET prefix == PrefixOf(parts, i) IN
           \/ MapGet(neg, prefix)
           \/ MapGet(neg, prefix \o <<"*">>)
           \/ MapGet(neg, prefix \o <<":", "*">>)

\* variant: the loop also reaches the full name (i <= len(parts))
isEnabledByWildcardInclusive(nsmap, mod) ==
    LET parts == Split(mod, ":") IN
    \E i \in 1..Len(parts) :
        LET ns == PrefixOf(parts, i) IN
        \/ MapGet(nsmap, ns \o <<":", "*">>)
        \/ MapGet(nsmap, ns \o <<"*">>)

\* variant: a pattern P:* or P* matches every name that starts with the text P
isEnabledByWildcardText(nsmap, mod) ==
    \E k \in DOMAIN nsmap :
        /\ nsmap[k]
        /\ k # <<>> /\ k[Len(k)] = "*"
        /\ LET stem == SubSeq(k, 1, Len(k) - 1)
               base == IF stem # <<>> /\ stem[Len(stem)] = ":"
                       THEN SubSeq(stem, 1, Len(stem) - 1) ELSE stem
           IN  Len(mod) > Len(base) /\ HasPrefix(mod, base)

\* variant: the spelling P* is looked up for the whole name as well
isEnabledByWildcardStarSelf(nsmap, mod) ==
    LET parts == Split(mod, ":") IN
    \/ \E i \in 1..(Len(parts) - 1) :
           MapGet(nsmap, PrefixOf(parts, i) \o <<":", "*">>)
    \/ \E i \in 1..Len(parts) :
           MapGet(nsmap, PrefixOf(parts, i) \o <<"*">>)

\* variant: only the spelling P:* is looked up
isEnabledByWildcardColonOnly(nsmap, mod) ==
    LET parts == Split(mod, ":") IN
    \E i \in 1..(Len(parts) - 1) :
        MapGet(nsmap, PrefixOf(parts, i) \o <<":", "*">>)

\* isEnabledByWildcard(module) over the map nsmap
isEnabledByWildcard(nsmap, mod) ==
    LET parts == Split(mod, ":") IN
    \E i \in 1..(Len(parts) - 1) :
        LET ns == PrefixOf(parts, i) IN
        \/ MapGet(nsmap, ns \o <<":", "*">>)
        \/ MapGet(nsmap, ns \o <<"*">>)

\* variant: the exact include is tested before the negation
checkEnabledIncludeFirst(rs, mod) ==
    IF MapGet(rs.debugNamespaces, mod) THEN TRUE
    ELSE IF isNegated(rs.negatedModules, mod) THEN FALSE
    ELSE IF rs.wildcardEnabled THEN TRUE
    ELSE isEnabledByWildcard(rs.debugNamespaces, mod)

\* variant: the global wildcard is tested before the negation
checkEnabledWildcardFirst(rs, mod) ==
    IF rs.wildcardEnabled THEN TRUE
    ELSE IF isNegated(rs.negatedModules, mod) THEN FALSE
    ELSE IF MapGet(rs.debugNamespaces, mod) THEN TRUE
    ELSE isEnabledByWildcard(rs.debugNamespaces, mod)

\* checkEnabled(module) over a rule set
\* variant: an include is looked up for every segment prefix of the name
checkEnabledIncludeCoversBelow(rs, mod) ==
    IF isNegated(rs.negatedModules, mod) THEN FALSE
    ELSE IF rs.wildcardEnabled THEN TRUE
    ELSE IF LET parts == Split(mod, ":") IN
            \E i \in 1..Len(parts) : MapGet(rs.debugNamespaces, PrefixOf(parts, i))
    THEN TRUE
    ELSE isEnabledByWildcard(rs.debugNamespaces, mod)

checkEnabled(rs, mod) ==
    IF isNegated(rs.negatedModules, mod) THEN FALSE
    ELSE IF rs.wildcardEnabled THEN TRUE
    ELSE IF MapGet(rs.debugNamespaces, mod) THEN TRUE
    ELSE isEnabledByWildcard(rs.debugNamespaces, mod)

\* the rule set held by the package variables
Current == RuleSet(debugNamespaces, negatedModules, wildcardEnabled)

(* ------------------------------ inputs --------------------------------- *)

\* segment names: "ab" has "a" as a character prefix, not as a segment prefix
Segs == {<<"a">>, <<"a", "b">>}

RECURSIVE ChannelsOfDepth(_)
ChannelsOfDepth(d) ==
    IF d = 1 THEN Segs
    ELSE {p \o <<":">> \o s : p \in ChannelsOfDepth(d - 1), s \in Segs}

\* channel names that are queried
Channels == UNION {ChannelsOfDepth(d) : d \in 1..MaxDepth}

\* namespaces that patterns are written for
PatBases == {<<"a">>, <<"a", ":", "a">>}
Suffixes == {<<>>, <<"*">>, <<":", "*">>}
Patterns == {b \o x : b \in PatBases, x \in Suffixes}

\* tokens of a DEBUG value: pattern, !pattern, *
Tokens == Patterns \cup {<<"!">> \o p : p \in Patterns} \cup {<<"*">>}

\* DEBUG values of MatchSpec: up to MaxTokens tokens joined by commas
EnvValues ==
    {Join(ts, <<",">>) : ts \in UNION {[1..n -> Tokens] : n \in 0..MaxTokens}}

\* largest number of comma-separated tokens of a DEBUG value of RawSpec
MaxRawTokens == 2

\* tokens as they may be typed: "", " ", " a ", "!a", "*", "!", "!!a", ":", "**"
RawTokens ==
    {<<>>, <<" ">>, <<" ", "a", " ">>, <<"!", "a">>, <<"*">>, <<"!">>,
     <<"!", "!", "a">>, <<":">>, <<"*", "*">>}

\* longer values: ",,", " a , ,!a,", " a , ,ab,"
LongValues ==
    {<<",", ",">>, <<" ", "a", " ", ",", " ", ",", "!", "a", ",">>,
     <<" ", "a", " ", ",", " ", ",", "a", "b", ",">>}

\* DEBUG values of RawSpec: up to MaxRawTokens raw tokens joined by commas, and
\* the longer values
RawValues ==
    {Join(ts, <<",">>) : ts \in UNION {[1..n -> RawTokens] : n \in 0..MaxRawTokens}}
        \cup LongValues

\* channel strings queried in RawSpec: "", "a", "ab", "a:a", "!a", ":", "**"
RawChannels ==
    {<<>>, <<"a">>, <<"a", "b">>, <<"a", ":", "a">>, <<"!", "a">>, <<":">>,
     <<"*", "*">>}

\* DEBUG values set while goroutines run: "", "a:*"
ConcValues == {<<>>, <<"a", ":", "*">>}

\* channel queried while goroutines run: "a:a", disabled under "*,!a" and "",
\* enabled under "a:*"
ConcChannels == {<<"a", ":", "a">>}

(* --------------------------- initial states ---------------------------- *)

\* the package variables before init(): nil maps, false flags
ZeroState ==
    /\ debugNamespaces = EmptyMap
    /\ negatedModules = EmptyMap
    /\ wildcardEnabled = FALSE
    /\ isInitialized = FALSE
    /\ started = FALSE
    /\ writer = 0
    /\ pending = 0
    /\ readers = {}
    /\ ret = None
    /\ out = NoOut
    /\ parsedFrom = <<>>
    /\ pw = ZeroWriter
    /\ write = NoWrite
    /\ stderr = <<>>

\* the goroutines R (reloaders) and D (readers) before their first call; the
\* history variables follow the goroutines of H
Goroutines(R, D, H) ==
    /\ pc = [t \in R \cup D |-> "idle"]
    /\ toks = [t \in R |-> <<>>]
    /\ fresh = [t \in R \cap H |-> "none"]
    /\ module = [t \in D |-> <<>>]
    /\ enabled = [t \in D |-> FALSE]
    /\ lines = [t \in D |-> 0]
    /\ overlap = [t \in D \cap H |-> FALSE]

\* DEBUG as the process is started: "*,!a"
InitValue == <<"*", ",", "!", "a">>

Init ==
    /\ env = InitValue
    /\ ZeroState
    /\ Goroutines(1..NumReloaders, (NumReloaders + 1)..(NumReloaders + NumReaders),
                  1..(NumReloaders + NumReaders))

MatchInit == env \in EnvValues /\ ZeroState /\ Goroutines({}, {}, {})

(* ----------------------- package init (sequential) --------------------- *)

\* init(): parseDebugEnv() before any other goroutine exists
PkgInit ==
    /\ ~started
    /\ started' = TRUE
    /\ LET rs == IF isInitialized THEN Current ELSE ParseValue(env) IN
       /\ debugNamespaces' = rs.debugNamespaces
       /\ negatedModules' = rs.negatedModules
       /\ wildcardEnabled' = rs.wildcardEnabled
    /\ isInitialized' = TRUE
    /\ parsedFrom' = env
    /\ UNCHANGED <<prefixed, env, mutex, locals, results, overlap, fresh>>

\* variant: the lookup stores the zero value for a name that is absent
IsEnabledInserting(mod) ==
    /\ started
    /\ writer = 0
    /\ ret' = [module |-> mod, called |-> TRUE, enabled |-> checkEnabled(Current, mod)]
    /\ out' = NoOut
    /\ debugNamespaces' = MapPut(debugNamespaces, mod, MapGet(debugNamespaces, mod))
    /\ UNCHANGED <<prefixed, env, negatedModules, wildcardEnabled, isInitialized, started,
                   mutex, locals, history>>

\* IsEnabled(module) called by the only goroutine: the read lock is free
IsEnabled(mod) ==
    /\ started
    /\ writer = 0
    /\ ret' = [module |-> mod, called |-> TRUE, enabled |-> checkEnabled(Current, mod)]
    /\ out' = NoOut
    /\ UNCHANGED <<prefixed, env, shared, started, mutex, locals, history>>

MatchNext ==
    \/ PkgInit
    \/ \E c \in Channels : IsEnabled(c)

MatchSpec == MatchInit /\ [][MatchNext]_vars

(* ---------------- one goroutine calling the whole API ------------------ *)

RawInit == env \in RawValues /\ ZeroState /\ Goroutines({}, {}, {})

\* variant: the reset is done here and the flag is not cleared, so that the
\* parse returns at once
ReloadDebugSettingsClears ==
    /\ started
    /\ writer = 0 /\ readers = {}
    /\ LET st == parseDebugEnv(isInitialized, ResetRules, env) IN
       /\ debugNamespaces' = st.rules.debugNamespaces
       /\ negatedModules' = st.rules.negatedModules
       /\ wildcardEnabled' = st.rules.wildcardEnabled
       /\ isInitialized' = st.isInitialized
    /\ parsedFrom' = env
    /\ ret' = None
    /\ out' = [call |-> "reload", module |-> <<>>, lines |-> 0]
    /\ UNCHANGED <<prefixed, env, started, mutex, locals, overlap, fresh>>

\* ReloadDebugSettings() called by the only goroutine: the lock is free, the
\* flag is cleared, parseDebugEnv() runs
ReloadDebugSettings ==
    /\ started
    /\ writer = 0 /\ readers = {}
    /\ LET st == parseDebugEnv(FALSE, Current, env) IN
       /\ debugNamespaces' = st.rules.debugNamespaces
       /\ negatedModules' = st.rules.negatedModules
       /\ wildcardEnabled' = st.rules.wildcardEnabled
       /\ isInitialized' = st.isInitialized
    /\ parsedFrom' = env
    /\ ret' = None
    /\ out' = [call |-> "reload", module |-> <<>>, lines |-> 0]
    /\ UNCHANGED <<prefixed, env, started, mutex, locals, overlap, fresh>>

\* the closure of Debug(module) invoked by the only goroutine
Debug(mod) ==
    /\ started
    /\ writer = 0
    /\ LET isOn == checkEnabled(Current, mod) IN
       out' = [call |-> "emit", module |-> mod, lines |-> IF isOn THEN 1 ELSE 0]
    /\ ret' = None
    /\ UNCHANGED <<prefixed, env, shared, started, mutex, locals, history>>

RawNext ==
    \/ PkgInit
    \/ ReloadDebugSettings
    \/ \E c \in RawChannels : IsEnabled(c)
    \/ \E c \in RawChannels : Debug(c)

RawSpec == RawInit /\ [][RawNext]_vars

(* ------------------------- goroutines: reload -------------------------- *)

ReloadRunning == \E r \in Reloaders : pc[r] \notin {"idle", "r_done"}

\* emitter calls in progress see a reload begin
MarkOverlap ==
    overlap' = [t \in DOMAIN overlap |->
                   overlap[t] \/ pc[t] \in {"e_rlock", "e_check", "e_out", "e_done"}]

\* goroutine t starts a parse (it is past the isInitialized test): every reload
\* call in progress has had a parse start since it began, its own or another's
MarkFresh(t) ==
    fresh' = [r \in DOMAIN fresh |->
                 IF r = t THEN "own"
                 ELSE IF pc[r] \notin {"idle", "r_done"} /\ fresh[r] = "none"
                 THEN "other" ELSE fresh[r]]

\* os.Setenv("DEBUG", s), then the call of ReloadDebugSettings
Setenv(t, s) ==
    /\ started /\ pc[t] = "idle"
    /\ env' = s
    /\ pc' = [pc EXCEPT ![t] = "r_lock"]
    /\ MarkOverlap
    /\ fresh' = [r \in DOMAIN fresh |-> IF r = t THEN "none" ELSE fresh[r]]
    /\ UNCHANGED <<prefixed, shared, started, mutex, toks, module, enabled, lines, results,
                   parsedFrom>>

\* ReloadDebugSettings called with DEBUG as it is
CallReload(t) ==
    /\ started /\ pc[t] = "idle"
    /\ pc' = [pc EXCEPT ![t] = "r_lock"]
    /\ MarkOverlap
    /\ fresh' = [r \in DOMAIN fresh |-> IF r = t THEN "none" ELSE fresh[r]]
    /\ UNCHANGED <<prefixed, env, shared, started, mutex, toks, module, enabled, lines, results,
                   parsedFrom>>

\* debugMu.Lock(), first half: no other goroutine is inside Lock() or holds the
\* write lock; from here on new readers are held back
CanAnnounce == writer = 0 /\ pending = 0

\* debugMu.Lock(), second half: the readers that held the lock have left
CanLock == writer = 0 /\ readers = {}

\* ReloadDebugSettings: debugMu.Lock() is entered
ReloadAnnounce(t) ==
    /\ pc[t] = "r_lock" /\ CanAnnounce
    /\ pending' = t
    /\ pc' = [pc EXCEPT ![t] = "r_wait"]
    /\ UNCHANGED <<prefixed, env, shared, started, writer, readers, toks, module, enabled,
                   lines, results, history>>

\* ReloadDebugSettings: debugMu.Lock() returns
ReloadAcquire(t) ==
    /\ pc[t] = "r_wait" /\ pending = t /\ CanLock
    /\ writer' = t
    /\ pending' = 0
    /\ pc' = [pc EXCEPT ![t] = "r_reset"]
    /\ UNCHANGED <<prefixed, env, shared, started, readers, toks, module, enabled, lines,
                   results, history>>

\* variant: the flag is cleared without the lock
ReloadLockSkipped(t) ==
    /\ pc[t] = "r_lock"
    /\ isInitialized' = FALSE
    /\ pc' = [pc EXCEPT ![t] = "p_lock"]
    /\ UNCHANGED <<prefixed, env, rules, started, mutex, toks, module, enabled, lines, results,
                   history>>

\* ReloadDebugSettings: debugMu.Lock() in one step, taken when the lock is free
\* (the goroutine is never seen inside Lock(), so that readers are not held
\* back by a waiting writer: more interleavings, not fewer)
ReloadLock(t) ==
    /\ pc[t] = "r_lock" /\ CanAnnounce /\ CanLock
    /\ writer' = t
    /\ pc' = [pc EXCEPT ![t] = "r_reset"]
    /\ UNCHANGED <<prefixed, env, shared, started, pending, readers, toks, module, enabled,
                   lines, results, history>>

\* variant: the flag is left as it is
ReloadResetFlagKeeps(t) ==
    /\ pc[t] = "r_reset" /\ writer = t
    /\ writer' = 0
    /\ pc' = [pc EXCEPT ![t] = "p_lock"]
    /\ UNCHANGED <<prefixed, env, shared, started, pending, readers, toks, module, enabled, lines, results,
                   history>>

\* variant: the write lock is kept over the call of parseDebugEnv
ReloadResetFlagHolds(t) ==
    /\ pc[t] = "r_reset" /\ writer = t
    /\ isInitialized' = FALSE
    /\ pc' = [pc EXCEPT ![t] = "p_lock"]
    /\ UNCHANGED <<prefixed, env, rules, started, mutex, toks, module, enabled, lines, results,
                   history>>

\* ReloadDebugSettings: isInitialized = false; debugMu.Unlock()
ReloadResetFlag(t) ==
    /\ pc[t] = "r_reset" /\ writer = t
    /\ isInitialized' = FALSE
    /\ writer' = 0
    /\ pc' = [pc EXCEPT ![t] = "p_lock"]
    /\ UNCHANGED <<prefixed, env, rules, started, pending, readers, toks, module, enabled, lines, results,
                   history>>

\* parseDebugEnv: debugMu.Lock() is entered
ParseAnnounce(t) ==
    /\ pc[t] = "p_lock" /\ CanAnnounce
    /\ pending' = t
    /\ pc' = [pc EXCEPT ![t] = "p_wait"]
    /\ UNCHANGED <<prefixed, env, shared, started, writer, readers, toks, module, enabled,
                   lines, results, history>>

\* parseDebugEnv: debugMu.Lock() returns
ParseAcquire(t) ==
    /\ pc[t] = "p_wait" /\ pending = t /\ CanLock
    /\ writer' = t
    /\ pending' = 0
    /\ pc' = [pc EXCEPT ![t] = "p_check"]
    /\ UNCHANGED <<prefixed, env, shared, started, readers, toks, module, enabled, lines,
                   results, history>>

\* parseDebugEnv: debugMu.Lock() in one step, taken when the lock is free
ParseLock(t) ==
    /\ pc[t] = "p_lock" /\ CanAnnounce /\ CanLock
    /\ writer' = t
    /\ pc' = [pc EXCEPT ![t] = "p_check"]
    /\ UNCHANGED <<prefixed, env, shared, started, pending, readers, toks, module, enabled,
                   lines, results, history>>

\* variant: a call that finds the flag set resets the maps before it returns
ParseSkipResets(t) ==
    /\ pc[t] = "p_check" /\ writer = t
    /\ isInitialized
    /\ debugNamespaces' = EmptyMap
    /\ negatedModules' = EmptyMap
    /\ wildcardEnabled' = FALSE
    /\ writer' = 0
    /\ pc' = [pc EXCEPT ![t] = "r_done"]
    /\ UNCHANGED <<prefixed, env, isInitialized, started, pending, readers, toks, module,
                   enabled, lines, results, history>>

\* parseDebugEnv: if isInitialized { return } (the deferred Unlock runs)
ParseSkip(t) ==
    /\ pc[t] = "p_check" /\ writer = t
    /\ isInitialized
    /\ writer' = 0
    /\ pc' = [pc EXCEPT ![t] = "r_done"]
    /\ UNCHANGED <<prefixed, env, shared, started, pending, readers, toks, module, enabled, lines, results,
                   history>>

\* variant: the maps and the flag of the earlier parse are kept
ParseResetKeeps(t) ==
    /\ pc[t] = "p_check" /\ writer = t
    /\ ~isInitialized
    /\ pc' = [pc EXCEPT ![t] = "p_getenv"]
    /\ MarkFresh(t)
    /\ UNCHANGED <<prefixed, env, shared, started, mutex, toks, module, enabled, lines,
                   results, parsedFrom, overlap>>

\* parseDebugEnv: reset state
ParseReset(t) ==
    /\ pc[t] = "p_check" /\ writer = t
    /\ ~isInitialized
    /\ debugNamespaces' = EmptyMap
    /\ negatedModules' = EmptyMap
    /\ wildcardEnabled' = FALSE
    /\ pc' = [pc EXCEPT ![t] = "p_getenv"]
    /\ MarkFresh(t)
    /\ UNCHANGED <<prefixed, env, isInitialized, started, mutex, toks, module, enabled, lines,
                   results, parsedFrom, overlap>>

\* parseDebugEnv: debugValue := os.Getenv("DEBUG"), empty: initialized, return
ParseGetenvEmpty(t) ==
    /\ pc[t] = "p_getenv" /\ writer = t
    /\ env = <<>>
    /\ parsedFrom' = env
    /\ isInitialized' = TRUE
    /\ writer' = 0
    /\ pc' = [pc EXCEPT ![t] = "r_done"]
    /\ UNCHANGED <<prefixed, env, rules, started, pending, readers, toks, module, enabled, lines,
                   results, overlap, fresh>>

\* parseDebugEnv: debugValue := os.Getenv("DEBUG"); strings.Split(debugValue, ",")
ParseGetenv(t) ==
    /\ pc[t] = "p_getenv" /\ writer = t
    /\ env # <<>>
    /\ parsedFrom' = env
    /\ toks' = [toks EXCEPT ![t] = Split(env, ",")]
    /\ pc' = [pc EXCEPT ![t] = "p_loop"]
    /\ UNCHANGED <<prefixed, env, shared, started, mutex, module, enabled, lines, results,
                   overlap, fresh>>

\* parseDebugEnv: one iteration of the range loop
ParseLoop(t) ==
    /\ pc[t] = "p_loop" /\ writer = t
    /\ toks[t] # <<>>
    /\ LET rs == ParseToken(Current, Head(toks[t])) IN
       /\ debugNamespaces' = rs.debugNamespaces
       /\ negatedModules' = rs.negatedModules
       /\ wildcardEnabled' = rs.wildcardEnabled
    /\ toks' = [toks EXCEPT ![t] = Tail(toks[t])]
    /\ UNCHANGED <<prefixed, env, isInitialized, started, mutex, pc, module, enabled, lines,
                   results, history>>

\* parseDebugEnv: isInitialized = true; the deferred Unlock; return
ParseDone(t) ==
    /\ pc[t] = "p_loop" /\ writer = t
    /\ toks[t] = <<>>
    /\ isInitialized' = TRUE
    /\ writer' = 0
    /\ pc' = [pc EXCEPT ![t] = "r_done"]
    /\ UNCHANGED <<prefixed, env, rules, started, pending, readers, toks, module, enabled, lines, results,
                   history>>

\* ReloadDebugSettings has returned to its caller
ReloadReturn(t) ==
    /\ pc[t] = "r_done"
    /\ pc' = [pc EXCEPT ![t] = "idle"]
    /\ fresh' = [r \in DOMAIN fresh |-> IF r = t THEN "none" ELSE fresh[r]]
    /\ UNCHANGED <<prefixed, env, shared, started, mutex, toks, module, enabled, lines, results,
                   parsedFrom, overlap>>

(* ------------------------- goroutines: readers ------------------------- *)

\* variant: readers take no lock
CanRLockAlways == TRUE

\* variant: the lock is a sync.Mutex, a reader needs it for itself
CanRLockExclusive == writer = 0 /\ pending = 0 /\ readers = {}

\* debugMu.RLock(): no writer holds the lock and none is inside Lock()
CanRLock == writer = 0 /\ pending = 0

\* IsEnabled(c) is called
CallIsEnabled(t, c) ==
    /\ started /\ pc[t] = "idle"
    /\ module' = [module EXCEPT ![t] = c]
    /\ pc' = [pc EXCEPT ![t] = "i_rlock"]
    /\ UNCHANGED <<prefixed, env, shared, started, mutex, toks, enabled, lines, results, history>>

\* IsEnabled: debugMu.RLock()
IsEnabledRLock(t) ==
    /\ pc[t] = "i_rlock" /\ CanRLock
    /\ readers' = readers \cup {t}
    /\ pc' = [pc EXCEPT ![t] = "i_check"]
    /\ UNCHANGED <<prefixed, env, shared, started, writer, pending, toks, module, enabled, lines, results,
                   history>>

\* IsEnabled: return checkEnabled(module), the deferred RUnlock runs
IsEnabledCheck(t) ==
    /\ pc[t] = "i_check" /\ t \in readers
    /\ enabled' = [enabled EXCEPT ![t] = checkEnabled(Current, module[t])]
    /\ readers' = readers \ {t}
    /\ pc' = [pc EXCEPT ![t] = "i_done"]
    /\ UNCHANGED <<prefixed, env, shared, started, writer, pending, toks, module, lines, results, history>>

\* the caller has the result of IsEnabled
IsEnabledReturn(t) ==
    /\ pc[t] = "i_done"
    /\ pc' = [pc EXCEPT ![t] = "idle"]
    /\ module' = [module EXCEPT ![t] = <<>>]
    /\ enabled' = [enabled EXCEPT ![t] = FALSE]
    /\ UNCHANGED <<prefixed, env, shared, started, mutex, toks, lines, results, history>>

\* the closure returned by Debug(c) is invoked; it holds nothing but c
CallEmit(t, c) ==
    /\ started /\ pc[t] = "idle"
    /\ module' = [module EXCEPT ![t] = c]
    /\ overlap' = [d \in DOMAIN overlap |-> IF d = t THEN ReloadRunning ELSE overlap[d]]
    /\ pc' = [pc EXCEPT ![t] = "e_rlock"]
    /\ UNCHANGED <<prefixed, env, shared, started, mutex, toks, enabled, lines, results,
                   parsedFrom, fresh>>

\* emitter: debugMu.RLock()
EmitRLock(t) ==
    /\ pc[t] = "e_rlock" /\ CanRLock
    /\ readers' = readers \cup {t}
    /\ pc' = [pc EXCEPT ![t] = "e_check"]
    /\ UNCHANGED <<prefixed, env, shared, started, writer, pending, toks, module, enabled, lines, results,
                   history>>

\* variant: the emitter decides by the rule set of process start
EmitCheckAtStart(t) ==
    /\ pc[t] = "e_check" /\ t \in readers
    /\ enabled' = [enabled EXCEPT ![t] = checkEnabled(ParseValue(InitValue), module[t])]
    /\ readers' = readers \ {t}
    /\ pc' = [pc EXCEPT ![t] = "e_out"]
    /\ UNCHANGED <<prefixed, env, shared, started, writer, pending, toks, module, lines, results, history>>

\* emitter: enabled := checkEnabled(module); debugMu.RUnlock()
EmitCheck(t) ==
    /\ pc[t] = "e_check" /\ t \in readers
    /\ enabled' = [enabled EXCEPT ![t] = checkEnabled(Current, module[t])]
    /\ readers' = readers \ {t}
    /\ pc' = [pc EXCEPT ![t] = "e_out"]
    /\ UNCHANGED <<prefixed, env, shared, started, writer, pending, toks, module, lines, results, history>>

\* variant: the line is written whatever enabled is
EmitOutAlways(t) ==
    /\ pc[t] = "e_out"
    /\ lines' = [lines EXCEPT ![t] = 1]
    /\ pc' = [pc EXCEPT ![t] = "e_done"]
    /\ UNCHANGED <<prefixed, env, shared, started, mutex, toks, module, enabled, results, history>>

\* emitter: if !enabled { return }; otherwise one Fprintf to os.Stderr
EmitOut(t) ==
    /\ pc[t] = "e_out"
    /\ lines' = [lines EXCEPT ![t] = IF enabled[t] THEN 1 ELSE 0]
    /\ pc' = [pc EXCEPT ![t] = "e_done"]
    /\ UNCHANGED <<prefixed, env, shared, started, mutex, toks, module, enabled, results, history>>

\* the emitter call has returned to its caller
EmitReturn(t) ==
    /\ pc[t] = "e_done"
    /\ pc' = [pc EXCEPT ![t] = "idle"]
    /\ module' = [module EXCEPT ![t] = <<>>]
    /\ enabled' = [enabled EXCEPT ![t] = FALSE]
    /\ lines' = [lines EXCEPT ![t] = 0]
    /\ overlap' = [d \in DOMAIN overlap |-> IF d = t THEN FALSE ELSE overlap[d]]
    /\ UNCHANGED <<prefixed, env, shared, started, mutex, toks, results, parsedFrom, fresh>>

(* --------------------------- the program ------------------------------- *)

Next ==
    \/ PkgInit
    \/ \E t \in Reloaders, s \in ConcValues : Setenv(t, s)
    \/ \E t \in Reloaders : CallReload(t)
    \/ \E t \in Reloaders : ReloadLock(t)
    \/ \E t \in Reloaders : ReloadResetFlag(t)
    \/ \E t \in Reloaders : ParseLock(t)
    \/ \E t \in Reloaders : ParseSkip(t)
    \/ \E t \in Reloaders : ParseReset(t)
    \/ \E t \in Reloaders : ParseGetenvEmpty(t)
    \/ \E t \in Reloaders : ParseGetenv(t)
    \/ \E t \in Reloaders : ParseLoop(t)
    \/ \E t \in Reloaders : ParseDone(t)
    \/ \E t \in Reloaders : ReloadReturn(t)
    \/ \E t \in Readers, c \in ConcChannels : CallIsEnabled(t, c)
    \/ \E t \in Readers : IsEnabledRLock(t)
    \/ \E t \in Readers : IsEnabledCheck(t)
    \/ \E t \in Readers : IsEnabledReturn(t)
    \/ \E t \in Readers, c \in ConcChannels : CallEmit(t, c)
    \/ \E t \in Readers : EmitRLock(t)
    \/ \E t \in Readers : EmitCheck(t)
    \/ \E t \in Readers : EmitOut(t)
    \/ \E t \in Readers : EmitReturn(t)

Spec == Init /\ [][Next]_vars

(* ------------------- the lock protocol on its own ---------------------- *)

\* two goroutines that reload and two that read
LockReloaders == {1, 2}
LockReaders == {3, 4}

LockInit ==
    /\ env \in ConcValues
    /\ ZeroState
    /\ Goroutines(LockReloaders, LockReaders, {})

\* the calls with debugMu.Lock() in its two halves; DEBUG is left as it is
LockNext ==
    \/ PkgInit
    \/ \E t \in Reloaders : CallReload(t)
    \/ \E t \in Reloaders : ReloadAnnounce(t)
    \/ \E t \in Reloaders : ReloadAcquire(t)
    \/ \E t \in Reloaders : ReloadResetFlag(t)
    \/ \E t \in Reloaders : ParseAnnounce(t)
    \/ \E t \in Reloaders : ParseAcquire(t)
    \/ \E t \in Reloaders : ParseSkip(t)
    \/ \E t \in Reloaders : ParseReset(t)
    \/ \E t \in Reloaders : ParseGetenvEmpty(t)
    \/ \E t \in Reloaders : ParseGetenv(t)
    \/ \E t \in Reloaders : ParseLoop(t)
    \/ \E t \in Reloaders : ParseDone(t)
    \/ \E t \in Reloaders : ReloadReturn(t)
    \/ \E t \in Readers, c \in ConcChannels : CallIsEnabled(t, c)
    \/ \E t \in Readers : IsEnabledRLock(t)
    \/ \E t \in Readers : IsEnabledCheck(t)
    \/ \E t \in Readers : IsEnabledReturn(t)
    \/ \E t \in Readers, c \in ConcChannels : CallEmit(t, c)
    \/ \E t \in Readers : EmitRLock(t)
    \/ \E t \in Readers : EmitCheck(t)
    \/ \E t \in Readers : EmitOut(t)
    \/ \E t \in Readers : EmitReturn(t)

LockSpec == LockInit /\ [][LockNext]_vars

\* the steps of a ReloadDebugSettings call, from its call to its return
ReloadStep(t) ==
    \/ ReloadAnnounce(t) \/ ReloadAcquire(t) \/ ReloadResetFlag(t)
    \/ ParseAnnounce(t) \/ ParseAcquire(t) \/ ParseSkip(t) \/ ParseReset(t)
    \/ ParseGetenvEmpty(t) \/ ParseGetenv(t) \/ ParseLoop(t) \/ ParseDone(t)

\* the steps of an IsEnabled or emitter call, from its call to its return
ReaderStep(t) ==
    \/ IsEnabledRLock(t) \/ IsEnabledCheck(t)
    \/ EmitRLock(t) \/ EmitCheck(t) \/ EmitOut(t)

\* the Go scheduler runs every runnable goroutine; a goroutine that waits in
\* Lock() or RLock() gets the lock if it is free again and again: sync.Mutex
\* hands the lock to a goroutine that keeps waiting (starvation mode), and the
\* Unlock of sync.RWMutex admits the readers that wait
Fairness ==
    /\ \A t \in LockReloaders : SF_vars(ReloadStep(t))
    /\ \A t \in LockReaders : SF_vars(ReaderStep(t))

FairLockSpec == LockInit /\ [][LockNext]_vars /\ Fairness

(* ===================== properties of the store ======================== *)

\* C2: whenever a goroutine holds the read lock to evaluate checkEnabled, no
\* writer is inside the lock and the three package variables are together the
\* complete parse of one DEBUG value, the one the latest parse read.
ReadersSeeWholeRuleSet ==
    readers # {} => (writer = 0 /\ Current = ParseValue(parsedFrom))

\* a reader holds the read lock while a reload is between its flag reset and
\* its parse, with a new DEBUG value waiting
ReadDuringReload ==
    \E t \in readers, r \in Reloaders :
        /\ pc[t] \in {"i_check", "e_check"}
        /\ pc[r] = "p_lock" /\ ~isInitialized
        /\ env # parsedFrom

\* every reload call has returned
AllReloadsReturned == \A r \in Reloaders : pc[r] \in {"idle", "r_done"}

\* C3: once all reload calls have returned, the rule set is the parse of the
\* DEBUG value that is current then, and isInitialized is true.
LastWriterWins ==
    (started /\ AllReloadsReturned) =>
        (isInitialized /\ Current = ParseValue(env))

\* two reload calls that were in flight together have both returned, and the
\* value in force is not the one the process started with
ConcurrentReloadsReturned ==
    /\ \E r1, r2 \in Reloaders : r1 # r2 /\ pc[r1] = "r_done" /\ pc[r2] = "r_done"
    /\ env # InitValue
    /\ Current = ParseValue(env)

\* C4: when a reload call has returned and no other reload is in flight, every
\* channel is matched as by the parse of the current DEBUG value alone; nothing
\* of an earlier value is left.
ReloadReplacesWholesale ==
    \A t \in Reloaders :
        (pc[t] = "r_done" /\ \A o \in Reloaders \ {t} : pc[o] = "idle") =>
            \A c \in Channels :
                checkEnabled(Current, c) = checkEnabled(ParseValue(env), c)

\* a reload to "a:*" has returned: the wildcard and the exclude of the start
\* value "*,!a" are gone, "a:a" is enabled and "ab" no longer is
StartValueReplaced ==
    \E t \in Reloaders :
        /\ pc[t] = "r_done" /\ \A o \in Reloaders \ {t} : pc[o] = "idle"
        /\ env = <<"a", ":", "*">>
        /\ ~wildcardEnabled /\ negatedModules = EmptyMap
        /\ checkEnabled(Current, <<"a", ":", "a">>)
        /\ ~checkEnabled(Current, <<"a", "b">>)

\* C5: an emitter call during which no reload ran has written one line if its
\* channel is enabled in the rule set in force and none if it is disabled.
EmitterFollowsRuleSet ==
    \A t \in Readers :
        (pc[t] = "e_done" /\ ~overlap[t]) =>
            lines[t] = (IF checkEnabled(Current, module[t]) THEN 1 ELSE 0)

\* an emitter for "a:a", disabled under the start value "*,!a", has written
\* its line in a call that began after a reload to "a:*" had returned
EmitterAfterReload ==
    \E t \in Readers :
        /\ pc[t] = "e_done" /\ ~overlap[t]
        /\ module[t] = <<"a", ":", "a">>
        /\ lines[t] = 1
        /\ env = <<"a", ":", "*">>

\* C12: when a ReloadDebugSettings call returns, a parse, its own or another
\* caller's, has started after the call began (and, holding the write lock
\* from its reset over its read of DEBUG to its end, has finished before the
\* call got the lock it returned through); this holds also when its own
\* parseDebugEnv found isInitialized set and returned at once.
ReloadSeesFreshParse ==
    \A t \in Reloaders : pc[t] = "r_done" => fresh[t] # "none"

\* a call has returned without parsing: another caller's parse started after
\* this call began, and the value in force is not the one the process started
\* with
ReturnedOnOthersParse ==
    \E t \in Reloaders :
        /\ pc[t] = "r_done" /\ fresh[t] = "other"
        /\ parsedFrom # InitValue
        /\ Current = ParseValue(parsedFrom)

(* ====================== properties of the lock ======================== *)

\* goroutine t is inside a call that has not returned
InCall(t) == pc[t] \notin {"idle", "r_done", "i_done", "e_done"}

\* goroutine t is at a lock operation that cannot proceed now
Blocked(t) ==
    \/ pc[t] \in {"r_lock", "p_lock"} /\ ~CanAnnounce
    \/ pc[t] \in {"r_wait", "p_wait"} /\ ~CanLock
    \/ pc[t] \in {"i_rlock", "e_rlock"} /\ ~CanRLock

\* no goroutine at a lock operation holds the lock already, and where calls are
\* in progress one of them can take a step
NoSelfLockNoStuckState ==
    /\ \A t \in Threads :
           /\ pc[t] \in {"r_lock", "r_wait", "p_lock", "p_wait", "i_rlock", "e_rlock"}
                 => (writer # t /\ t \notin readers)
    /\ (\E t \in Threads : InCall(t)) => (\E t \in Threads : InCall(t) /\ ~Blocked(t))

\* C17: no call takes debugMu while it holds it, no reachable state has all
\* calls in progress blocked, and under fair scheduling every call of
\* ReloadDebugSettings, IsEnabled and an emitter returns.
NoDeadlock ==
    /\ []NoSelfLockNoStuckState
    /\ \A t \in LockReloaders \cup LockReaders : InCall(t) ~> ~InCall(t)

\* a reload waits inside Lock() for a reader that holds the read lock, and the
\* other reload and the other reader wait behind it
AllButOneWaiting ==
    \E r1, r2 \in Reloaders, d1, d2 \in Readers :
        /\ r1 # r2 /\ d1 # d2
        /\ pending = r1 /\ d1 \in readers
        /\ pc[r2] = "p_lock" /\ Blocked(r2)
        /\ pc[d2] = "e_rlock" /\ Blocked(d2)

\* C18: a reader that cannot take the read lock is held back by a reload call
\* that holds the write lock or is inside Lock(), never by a reader alone; and
\* while a goroutine holds the write lock no reader holds the read lock and no
\* other goroutine is inside a write-locked section.
ReadersShareLock ==
    /\ \A t \in Readers :
           (pc[t] \in {"i_rlock", "e_rlock"} /\ ~CanRLock) =>
               \E r \in Reloaders :
                   pc[r] \in {"r_wait", "r_reset", "p_wait", "p_check", "p_getenv",
                              "p_loop"}
    /\ writer # 0 =>
           /\ readers = {}
           /\ {r \in Reloaders : pc[r] \in {"r_reset", "p_check", "p_getenv", "p_loop"}}
                 = {writer}

\* two goroutines hold the read lock at once, one in IsEnabled and one in an
\* emitter
TwoReadersInside ==
    \E d1, d2 \in Readers :
        /\ d1 # d2 /\ {d1, d2} \subseteq readers
        /\ pc[d1] = "i_check" /\ pc[d2] = "e_check"

(* ===================== properties of the matcher ====================== *)

\* the segment prefixes of a name, the name itself included, read off its text
SegPrefixes(c) ==
    {SubSeq(c, 1, i) : i \in {k \in 1..Len(c) : k = Len(c) \/ c[k + 1] = ":"}}

\* p is a proper ancestor namespace of c: c is p, a colon, and more
IsDescendant(c, p) == Len(c) > Len(p) + 1 /\ HasPrefix(c, p \o <<":">>)

\* the patterns a map holds with value true
Held(m) == {k \in DOMAIN m : m[k]}

\* negation as section 4.3 words it: the name itself is excluded, or one of its
\* segment prefixes followed by * or :* is
SpecNegated(c) ==
    \/ c \in Held(negatedModules)
    \/ \E p \in SegPrefixes(c) :
           \/ p \o <<"*">> \in Held(negatedModules)
           \/ p \o <<":", "*">> \in Held(negatedModules)

\* C1: a channel that is negated (it is excluded by name, or one of its segment
\* prefixes followed by * or :* is excluded) is reported disabled, whatever the
\* global wildcard flag and the include patterns are.
NegationIsAbsolute ==
    (ret.called /\ SpecNegated(ret.module)) => ~ret.enabled

\* an exact include of the queried name is present, and the name is negated
\* through a wildcard exclude of a segment prefix
NegationOverInclude ==
    /\ ret.called /\ ~ret.enabled
    /\ MapGet(debugNamespaces, ret.module)
    /\ ret.module \notin DOMAIN negatedModules
    /\ SpecNegated(ret.module)

\* DEBUG is the single include pattern P:*
OnlyWildcardOf(P) == env = P \o <<":", "*">>

\* C6: with the single include pattern P:*, every channel below P, at any
\* depth, is enabled and the bare channel P is not.
HierarchicalEnabling ==
    \A P \in PatBases :
        (ret.called /\ OnlyWildcardOf(P)) =>
            /\ IsDescendant(ret.module, P) => ret.enabled
            /\ ret.module = P => ~ret.enabled

\* "a:*" enables the grandchild "a:a:ab"
GrandchildEnabled ==
    /\ ret.called /\ ret.enabled
    /\ OnlyWildcardOf(<<"a">>)
    /\ ret.module = <<"a", ":", "a", ":", "a", "b">>

\* C7: the single include pattern P:* enables no channel that is not below P:
\* not a sibling of P, not P, not a name that merely starts with the text of P.
SiblingIsolation ==
    \A P \in PatBases :
        (ret.called /\ OnlyWildcardOf(P) /\ ~IsDescendant(ret.module, P))
            => ~ret.enabled

\* "a:*" leaves "ab:a" disabled: "ab" starts with "a" but is another segment
LookalikeDisabled ==
    /\ ret.called /\ ~ret.enabled
    /\ OnlyWildcardOf(<<"a">>)
    /\ ret.module = <<"a", "b", ":", "a">>

\* DEBUG holds exactly the two tokens x and y, in either order
TwoTokens(x, y) == env \in {x \o <<",">> \o y, y \o <<",">> \o x}

\* C8: with include P:* and exclude !P:q, the channel P:q and everything below
\* it are disabled and every other channel below P is enabled.
NegationScoping ==
    \A P \in PatBases, q \in Segs :
        LET X == P \o <<":">> \o q IN
        (ret.called /\ TwoTokens(P \o <<":", "*">>, <<"!">> \o X)) =>
            /\ (ret.module = X \/ IsDescendant(ret.module, X)) => ~ret.enabled
            /\ (/\ IsDescendant(ret.module, P)
                /\ ret.module # X
                /\ ~IsDescendant(ret.module, X)) => ret.enabled

\* "a:*,!a:a" disables "a:a:ab", a channel below the excluded one
ScopedDescendantDisabled ==
    /\ ret.called /\ ~ret.enabled
    /\ TwoTokens(<<"a", ":", "*">>, <<"!", "a", ":", "a">>)
    /\ ret.module = <<"a", ":", "a", ":", "a", "b">>

\* C9 as stated: with "*,!P" every channel other than P itself is enabled.
PlainExcludeIsExact ==
    \A P \in PatBases :
        (ret.called /\ TwoTokens(<<"*">>, <<"!">> \o P)) =>
            (ret.module # P => ret.enabled)

\* C9, amended: with "*,!P" the channel P and every channel below P are
\* disabled, and every other channel is enabled.
PlainExcludeCoversDescendants ==
    \A P \in PatBases :
        (ret.called /\ TwoTokens(<<"*">>, <<"!">> \o P)) =>
            (ret.enabled <=> ~(ret.module = P \/ IsDescendant(ret.module, P)))

\* "*,!a" disables "a:a:ab"
PlainExcludeHitsGrandchild ==
    /\ ret.called /\ ~ret.enabled
    /\ TwoTokens(<<"*">>, <<"!", "a">>)
    /\ ret.module = <<"a", ":", "a", ":", "a", "b">>

\* the trimmed, non-empty tokens of a DEBUG value
SpecTokens(s) ==
    LET raw == Split(s, ",") IN
    {TrimSpace(raw[i]) : i \in 1..Len(raw)} \ {<<>>}

\* the patterns that the value excludes
ExcludesOf(s) == {Tail(t) : t \in {u \in SpecTokens(s) : u[1] = "!"}}

\* an exclude token covers c: it names c or an ancestor of c, bare or followed
\* by * or :*
Covered(s, c) ==
    \E e \in ExcludesOf(s), p \in SegPrefixes(c) :
        e \in {p, p \o <<"*">>, p \o <<":", "*">>}

\* C10: when DEBUG contains the bare token *, a channel is enabled exactly when
\* no exclude token covers it (negated read as the negation check decides it:
\* an exclude names the channel or one of its ancestors, with or without * or :*).
GlobalWildcard ==
    (ret.called /\ <<"*">> \in SpecTokens(env)) =>
        (ret.enabled <=> ~Covered(env, ret.module))

\* "*,!a:a" enables "ab:a", which no token names
WildcardEnablesUnnamed ==
    /\ ret.called /\ ret.enabled
    /\ TwoTokens(<<"*">>, <<"!", "a", ":", "a">>)
    /\ ret.module = <<"a", "b", ":", "a">>

(* ===================== properties of the parser ======================= *)

\* the value is empty or made of commas and blanks only
OnlySeparators(s) == \A i \in 1..Len(s) : s[i] \in {",", " "}

\* C11: when DEBUG is empty, or holds only commas and white space, the parse
\* leaves no include, no exclude and no global wildcard, and IsEnabled and the
\* emitter find every channel disabled.
EmptyValueDisablesAll ==
    (started /\ OnlySeparators(env)) =>
        /\ Current = ResetRules
        /\ ret.called => ~ret.enabled
        /\ out.lines = 0

\* DEBUG is " , ": IsEnabled("a") has answered false on the empty rule set
BlankTokensQueried ==
    /\ env = <<" ", ",", " ">>
    /\ ret.called /\ ret.module = <<"a">> /\ ~ret.enabled
    /\ Current = ResetRules

\* C13: a ReloadDebugSettings call made while the rule set in force was parsed
\* from the DEBUG value that is still current (a second load of the same
\* string) leaves the answer of the matcher for every channel as it was.
ReloadIdempotent ==
    [][(out'.call = "reload" /\ parsedFrom = env /\ ReloadDebugSettings) =>
          \A c \in RawChannels \cup Channels :
              checkEnabled(RuleSet(debugNamespaces', negatedModules',
                                   wildcardEnabled'), c)
                  = checkEnabled(Current, c)]_vars

\* "*,!a" has been loaded by init() and again by ReloadDebugSettings
ReloadedSameValue ==
    /\ out.call = "reload"
    /\ env = <<"*", ",", "!", "a">> /\ parsedFrom = env
    /\ wildcardEnabled /\ MapGet(negatedModules, <<"a">>)
    /\ isInitialized
(* ================= properties of the token set ======================== *)

\* the DEBUG values got from the token list ts by exchanging two neighbouring
\* tokens or by repeating one token at the end
Rearranged(ts) ==
    {Join([k \in 1..Len(ts) |->
              IF k = i THEN ts[i + 1] ELSE IF k = i + 1 THEN ts[i] ELSE ts[k]],
          <<",">>) : i \in 1..(Len(ts) - 1)}
    \cup {Join(Append(ts, ts[i]), <<",">>) : i \in 1..Len(ts)}

\* C14: exchanging two tokens of the DEBUG value, or repeating one of them,
\* gives a value under which IsEnabled answers the same for the queried
\* channel, also where the two orders leave different debugNamespaces entries.
TokenSetSemantics ==
    ret.called =>
        \A v \in Rearranged(Split(env, ",")) :
            checkEnabled(ParseValue(v), ret.module) = ret.enabled

\* "!a,a" leaves debugNamespaces["a"] true where "a,!a" leaves it false, and
\* "a" is disabled
ExcludeThenInclude ==
    /\ env = <<"!", "a", ",", "a">>
    /\ MapGet(debugNamespaces, <<"a">>)
    /\ ~MapGet(ParseValue(<<"a", ",", "!", "a">>).debugNamespaces, <<"a">>)
    /\ ret.called /\ ret.module = <<"a">> /\ ~ret.enabled
\* C15: when DEBUG holds a pattern P both as include token and as exclude
\* token, in either order, the channel named P and every channel that the
\* include P alone enables are disabled.
ExclusionWinsOnOverlap ==
    \A P \in Patterns :
        (ret.called /\ TwoTokens(P, <<"!">> \o P)) =>
            ((ret.module = P \/ checkEnabled(ParseValue(P), ret.module))
                => ~ret.enabled)

\* "!a:*,a:*" leaves debugNamespaces["a:*"] true, and "a:a:ab", which "a:*"
\* alone enables, is disabled
OverlapDisablesDescendant ==
    /\ env = <<"!", "a", ":", "*", ",", "a", ":", "*">>
    /\ MapGet(debugNamespaces, <<"a", ":", "*">>)
    /\ ret.called /\ ret.module = <<"a", ":", "a", ":", "a", "b">>
    /\ checkEnabled(ParseValue(<<"a", ":", "*">>), ret.module)
    /\ ~ret.enabled
\* C16: with "*" and a wildcard exclude !P:* or !P*, the bare channel P and
\* every channel below P are disabled and every other channel is enabled.
WildcardExcludeCoversBase ==
    \A P \in PatBases, x \in Suffixes \ {<<>>} :
        (ret.called /\ TwoTokens(<<"*">>, <<"!">> \o P \o x)) =>
            (ret.enabled <=> ~(ret.module = P \/ IsDescendant(ret.module, P)))

\* "*,!a:*" disables the bare channel "a"
WildcardExcludeHitsBase ==
    /\ ret.called /\ ~ret.enabled
    /\ TwoTokens(<<"*">>, <<"!", "a", ":", "*">>)
    /\ ret.module = <<"a">>
(* ================= properties of the whole API ======================== *)

\* C19: a call of IsEnabled or of an emitter leaves both maps (their key sets
\* included), the wildcard flag and isInitialized as they were, and an
\* IsEnabled call that directly follows one for the same channel returns the
\* same result.
MatchingIsPure ==
    [][((ret'.called \/ out'.call = "emit")
          /\ \E c \in RawChannels : IsEnabled(c) \/ Debug(c)) =>
         /\ shared' = shared
         /\ (ret.called /\ ret'.called /\ ret'.module = ret.module)
               => ret'.enabled = ret.enabled]_vars

\* under " a " the absent name "a:a" has been looked up and the include map
\* still holds the one key "a"
AbsentNameLookedUp ==
    /\ env = <<" ", "a", " ">>
    /\ ret.called /\ ret.module = <<"a", ":", "a">> /\ ~ret.enabled
    /\ DOMAIN debugNamespaces = {<<"a">>}
    /\ DOMAIN negatedModules = {}

\* the include patterns that the value names
IncludesOf(s) == {t \in SpecTokens(s) : t[1] # "!" /\ t # <<"*">>}

\* C20: after init() and after every ReloadDebugSettings call, whatever the
\* DEBUG value, isInitialized is true, every trimmed non-empty token is held
\* as a rule (none is rejected: "!" excludes the empty name, "!!x" excludes
\* "!x", ":" and "**" are include patterns), and IsEnabled and the emitter
\* have answered with a boolean.
ParsingNeverFails ==
    started =>
        /\ isInitialized
        /\ wildcardEnabled = (<<"*">> \in SpecTokens(env))
        /\ DOMAIN negatedModules = ExcludesOf(env)
        /\ \A k \in DOMAIN negatedModules : negatedModules[k] = TRUE
        /\ DOMAIN debugNamespaces = ExcludesOf(env) \cup IncludesOf(env)
        /\ \A k \in DOMAIN debugNamespaces : debugNamespaces[k] \in BOOLEAN
        /\ ret.enabled \in BOOLEAN
        /\ out.lines \in {0, 1}

\* "!!a,**" has been reloaded: "!a" is excluded, "**" is an include pattern
\* and not the global wildcard
MalformedTokensLoaded ==
    /\ env = <<"!", "!", "a", ",", "*", "*">>
    /\ out.call = "reload" /\ isInitialized
    /\ MapGet(negatedModules, <<"!", "a">>)
    /\ MapGet(debugNamespaces, <<"*", "*">>)
    /\ ~wildcardEnabled

(* ---------------------------- normalisation ---------------------------- *)

RECURSIVE TrimAll(_)
\* every token of ts without its surrounding blanks, the empty ones left out
TrimAll(ts) ==
    IF ts = <<>> THEN <<>>
    ELSE LET t == TrimSpace(Head(ts)) IN
         (IF t = <<>> THEN <<>> ELSE <<t>>) \o TrimAll(Tail(ts))

\* the tokens of DEBUG value s as the written rules name them
NormalTokens(s) == TrimAll(Split(s, ","))

\* the value with only its non-empty trimmed tokens: " a , ,ab," gives "a,ab"
Normalised(s) == Join(NormalTokens(s), <<",">>)

\* C21: a DEBUG value with blanks around its tokens and with empty tokens gives
\* every queried channel the same IsEnabled result as the value made of its
\* trimmed non-empty tokens; and when none of the tokens is an exclude, every
\* channel named by one of the tokens is enabled.
TokenNormalisation ==
    (ret.called /\ parsedFrom = env) =>
        /\ ret.enabled = checkEnabled(ParseValue(Normalised(env)), ret.module)
        /\ LET ts == NormalTokens(env) IN
           ((\A i \in 1..Len(ts) : ~HasPrefix(ts[i], <<"!">>))
               /\ (\E i \in 1..Len(ts) : ts[i] = ret.module))
              => ret.enabled

\* C21 witness: " a , ,ab," is loaded and its second channel "ab" is queried
\* and found enabled
SpacedValueQueried ==
    /\ env = <<" ", "a", " ", ",", " ", ",", "a", "b", ",">>
    /\ Normalised(env) = <<"a", ",", "a", "b">>
    /\ ret.called /\ ret.module = <<"a", "b">> /\ ret.enabled

(* ------------------------- wildcard includes --------------------------- *)

\* the two wildcard suffixes
WildSuffixes == {<<"*">>, <<":", "*">>}

\* C22 as stated: the single include pattern P* or P:* enables the channel P
\* itself as well as every channel below P.
WildcardEnablesBaseToo ==
    \A P \in PatBases : \A x \in WildSuffixes :
        (ret.called /\ env = P \o x) =>
            ((ret.module = P \/ IsDescendant(ret.module, P)) => ret.enabled)

\* C22, amended: the single include pattern P* or P:* enables every channel
\* below P, at any depth, and does not enable the channel P itself.
WildcardEnablesDescendantsOnly ==
    \A P \in PatBases : \A x \in WildSuffixes :
        (ret.called /\ env = P \o x) =>
            /\ IsDescendant(ret.module, P) => ret.enabled
            /\ ret.module = P => ~ret.enabled

\* C22 witness: under "a:a*" the channel "a:a" itself is queried and found
\* disabled
StarredBaseDisabled ==
    /\ ret.called /\ ~ret.enabled
    /\ env = <<"a", ":", "a", "*">>
    /\ ret.module = <<"a", ":", "a">>

(* ----------------------------- PrefixWriter ---------------------------- *)

\* most lines of one buffer
MaxLines == 2
\* most phrases of one Ignores slice
MaxIgnores == 2

\* strings.Contains(s, substr): the empty string is contained in every string
Contains(s, substr) ==
    \E i \in 0..(Len(s) - Len(substr)) : SubSeq(s, i + 1, i + Len(substr)) = substr

\* prefixes given to a writer: "#", "#x"
Prefixes == {<<"#">>, <<"#", "x">>}

\* phrases to ignore: "", "y", "xy"
Phrases == {<<>>, <<"y">>, <<"x", "y">>}

\* the Ignores field: nil, the empty slice, up to MaxIgnores phrases
IgnoreSlices ==
    {NilSlice} \cup
    {Slice(xs) : xs \in UNION {[1..k -> Phrases] : k \in 0..MaxIgnores}}

\* the text of one line, without its newline: "x", "y", "xxy"
LineTexts == {<<"x">>, <<"y">>, <<"x", "x", "y">>}

RECURSIVE Concat(_)
\* the strings of a sequence written one after the other
Concat(ss) == IF ss = <<>> THEN <<>> ELSE Head(ss) \o Concat(Tail(ss))

\* buffers handed to Write: up to MaxLines newline-terminated lines, and the
\* same with the newline of the last line missing
Buffers ==
    LET whole == {Concat([i \in 1..Len(ls) |-> ls[i] \o <<"\n">>]) :
                     ls \in UNION {[1..k -> LineTexts] : k \in 0..MaxLines}}
    IN  whole \cup {SubSeq(b, 1, Len(b) - 1) : b \in whole \ {<<>>}}

\* pw := &PrefixWriter{Prefix: prefix, Ignores: ignores}
NewPrefixWriter(prefix, ignores) ==
    /\ pw' = [Prefix |-> prefix, Ignores |-> ignores]
    /\ write' = NoWrite
    /\ stderr' = <<>>
    /\ UNCHANGED <<env, shared, started, mutex, locals, results, history>>

\* variant: the count returned is that of the bytes printed
WriteCountsPrinted(b) ==
    LET text == b
        ignored == /\ ~pw.Ignores.isNil
                   /\ \E i \in 1..Len(pw.Ignores.elems) :
                          Contains(text, pw.Ignores.elems[i])
        printed == pw.Prefix \o <<" ">> \o text
    IN  /\ stderr' = IF ignored THEN <<>> ELSE <<printed>>
        /\ write' = [called |-> TRUE, p |-> b,
                     n |-> IF ignored THEN 0 ELSE Len(printed), err |-> "nil"]
        /\ UNCHANGED <<env, shared, started, mutex, locals, results, history, pw>>

\* variant: a phrase is looked for at the start of the text only
WriteIgnoresAtStart(b) ==
    LET text == b
        ignored == /\ ~pw.Ignores.isNil
                   /\ \E i \in 1..Len(pw.Ignores.elems) :
                          HasPrefix(text, pw.Ignores.elems[i])
    IN  /\ stderr' = IF ignored THEN <<>> ELSE <<pw.Prefix \o <<" ">> \o text>>
        /\ write' = [called |-> TRUE, p |-> b, n |-> Len(b), err |-> "nil"]
        /\ UNCHANGED <<env, shared, started, mutex, locals, results, history, pw>>

\* (pw *PrefixWriter) Write(p): the text is looked through for each phrase of
\* Ignores and, if none is found, printed once behind the prefix and a blank
Write(b) ==
    LET text == b
        ignored == /\ ~pw.Ignores.isNil
                   /\ \E i \in 1..Len(pw.Ignores.elems) :
                          Contains(text, pw.Ignores.elems[i])
    IN  /\ stderr' = IF ignored THEN <<>> ELSE <<pw.Prefix \o <<" ">> \o text>>
        /\ write' = [called |-> TRUE, p |-> b, n |-> Len(b), err |-> "nil"]
        /\ UNCHANGED <<env, shared, started, mutex, locals, results, history, pw>>

PrefixInit == env = InitValue /\ ZeroState /\ Goroutines({}, {}, {})

PrefixNext ==
    \/ \E x \in Prefixes : \E ig \in IgnoreSlices : NewPrefixWriter(x, ig)
    \/ \E b \in Buffers : Write(b)

PrefixSpec == PrefixInit /\ [][PrefixNext]_vars

\* sub occurs in s: s is some text, then sub, then some text
IsSubstring(sub, s) ==
    \E i \in 0..Len(s) : \E j \in i..Len(s) : SubSeq(s, i + 1, j) = sub

\* some phrase of the Ignores of the writer in use occurs in text s
HasIgnored(s) ==
    \E i \in 1..Len(pw.Ignores.elems) : IsSubstring(pw.Ignores.elems[i], s)

\* C23: every Write call returns n = len(p) and a nil error, whether the text
\* was printed or was suppressed because of an ignored phrase.
WriteReturnsWholeLength ==
    write.called => (write.n = Len(write.p) /\ write.err = "nil")

\* C23 witness: a Write of "xxy\n" is suppressed by the phrase "xy" and returns 4
SuppressedWriteReturned ==
    /\ write.called /\ write.p = <<"x", "x", "y", "\n">> /\ write.n = 4
    /\ pw.Ignores = Slice(<<<<"x", "y">>>>)
    /\ stderr = <<>>

LinesOf(s) ==
    LET pieces == Split(s, "\n") IN
    IF pieces[Len(pieces)] = <<>> THEN SubSeq(pieces, 1, Len(pieces) - 1)
    ELSE pieces

\* the buffer holds two or more lines, each ended by a newline
SeveralLines(b) == b # <<>> /\ b[Len(b)] = "\n" /\ Len(LinesOf(b)) >= 2

\* C25: for a Write whose buffer holds several newline-terminated lines, every
\* line printed starts with Prefix, and every line of the buffer that contains
\* no ignored phrase is printed behind the prefix, whatever the other lines of
\* the buffer contain.
PrefixesEachLine ==
    (write.called /\ SeveralLines(write.p)) =>
        LET inLines == LinesOf(write.p)
            outLines == LinesOf(Concat(stderr))
        IN  /\ \A j \in 1..Len(outLines) : HasPrefix(outLines[j], pw.Prefix)
            /\ \A i \in 1..Len(inLines) :
                   ~HasIgnored(inLines[i]) =>
                       \E j \in 1..Len(outLines) :
                           outLines[j] = pw.Prefix \o <<" ">> \o inLines[i]

(* -------------------------- wildcard spellings ------------------------- *)

\* pattern x with its wildcard suffix spelled the other way: P:* for P*, P* for
\* P:*; a pattern without wildcard suffix, and the bare *, stay as they are
OtherSpelling(x) ==
    IF Len(x) > 2 /\ SubSeq(x, Len(x) - 1, Len(x)) = <<":", "*">>
    THEN SubSeq(x, 1, Len(x) - 2) \o <<"*">>
    ELSE IF Len(x) > 1 /\ x[Len(x)] = "*"
    THEN SubSeq(x, 1, Len(x) - 1) \o <<":", "*">>
    ELSE x

\* token t, include or exclude, with its pattern spelled the other way
Respelled(t) ==
    IF HasPrefix(t, <<"!">>) THEN <<"!">> \o OtherSpelling(Tail(t))
    ELSE OtherSpelling(t)

\* the DEBUG value s with the token at position k spelled the other way
RespelledAt(s, k) ==
    LET ts == Split(s, ",") IN
    Join([i \in 1..Len(ts) |-> IF i = k THEN Respelled(ts[i]) ELSE ts[i]], <<",">>)

\* C26: respelling an include or exclude pattern of the DEBUG value, P:* as P*
\* or P* as P:*, gives the queried channel (non-empty segments without *) the
\* same IsEnabled result; this for every DEBUG value and every position, so
\* that any number of patterns may be respelled one after the other.
SpellingsEquivalent ==
    ret.called =>
        \A k \in 1..Len(Split(env, ",")) :
            ret.enabled = checkEnabled(ParseValue(RespelledAt(env, k)), ret.module)

\* C26 witness: the exclude is spelled "!a*" and, as "!a:*" would, disables
\* "a:a" under the global wildcard
StarSpelledExclude ==
    /\ ret.called /\ ~ret.enabled
    /\ env = <<"*", ",", "!", "a", "*">>
    /\ RespelledAt(env, 2) = <<"*", ",", "!", "a", ":", "*">>
    /\ ret.module = <<"a", ":", "a">>

(* ----------------------- single-segment channels ----------------------- *)

\* C27: a channel of one segment is enabled exactly when it is not negated and
\* the global wildcard is set or the channel is held as an exact include; so a
\* DEBUG value without the token * and without the channel's own name as a
\* token leaves it disabled, whatever wildcard-suffixed includes it has.
SingleSegmentRule ==
    (ret.called /\ ret.module \in Segs) =>
        /\ ret.enabled <=>
               /\ ~SpecNegated(ret.module)
               /\ wildcardEnabled \/ ret.module \in Held(debugNamespaces)
        /\ (<<"*">> \notin SpecTokens(env) /\ ret.module \notin SpecTokens(env))
               => ~ret.enabled

\* C27 witness: "a*,a:*" holds both wildcard includes of "a", and the channel
\* "a" is queried and found disabled
WildcardsLeaveSegmentDisabled ==
    /\ ret.called /\ ~ret.enabled
    /\ env = <<"a", "*", ",", "a", ":", "*">>
    /\ ret.module = <<"a">>

(* --------------------------- literal includes -------------------------- *)

\* the DEBUG value is made of literal includes only: no exclude, no wildcard
\* suffix, no global wildcard
OnlyLiterals == env # <<>> /\ SpecTokens(env) \subseteq PatBases

\* C30: under a DEBUG value of literal includes only, a channel is enabled
\* exactly when it is equal to one of the patterns: a literal include P enables
\* neither the channels below P nor the namespaces above P.
LiteralIncludeIsExact ==
    (ret.called /\ OnlyLiterals) =>
        /\ ret.enabled <=> ret.module \in SpecTokens(env)
        /\ \A P \in SpecTokens(env) :
               ((IsDescendant(ret.module, P) \/ IsDescendant(P, ret.module))
                   /\ ret.module \notin SpecTokens(env)) => ~ret.enabled

\* C30 witness: under "a" the channel "a:a" below it is queried and found
\* disabled
LiteralLeavesChildDisabled ==
    /\ ret.called /\ ~ret.enabled
    /\ env = <<"a">>
    /\ ret.module = <<"a", ":", "a">>

(* ----------------------- emitter against reload ------------------------ *)

\* C28 as stated: the step of an emitter call that writes the line is never
\* taken when every reload call has returned and the rule set in force
\* disables the channel.
NoWriteAfterDisablingReload ==
    [][\A t \in Readers :
          (pc[t] = "e_out" /\ pc'[t] = "e_done" /\ lines'[t] = 1 /\ ~ReloadRunning)
              => checkEnabled(Current, module[t])]_vars

\* C28, amended: an emitter call writes a line exactly when its own check,
\* made under the read lock, found the channel enabled; between that check and
\* the write the result differs from the rule set in force only if a reload
\* call began or ran during the emitter call.
WriteFollowsOwnCheck ==
    \A t \in Readers :
        /\ (pc[t] \in {"e_out", "e_done"} /\ ~overlap[t])
               => enabled[t] = checkEnabled(Current, module[t])
        /\ pc[t] = "e_done" => lines[t] = (IF enabled[t] THEN 1 ELSE 0)

\* C28 witness: the emitter has found "a:a" enabled and released the read
\* lock, a reload that disables "a:a" has since returned, and the line is
\* still to be written
DisabledBetweenCheckAndWrite ==
    \E t \in Readers :
        /\ pc[t] = "e_out" /\ enabled[t]
        /\ module[t] = <<"a", ":", "a">>
        /\ ~checkEnabled(Current, module[t])
        /\ ~ReloadRunning

(* --------------------------- the parse-once flag ----------------------- *)

\* reload call r has reset the flag and its parseDebugEnv has not ended
InsideReparse(r) == pc[r] \in {"p_lock", "p_wait", "p_check", "p_getenv", "p_loop"}

\* C29: after package init, isInitialized is true in every state in which no
\* reload call is between its reset of the flag and the end of its
\* parseDebugEnv, so whenever all reload calls have returned; and the step of a
\* parseDebugEnv call that finds the flag true leaves the rule set, the flag
\* and the record of the value parsed as they are.
InitializedOutsideReparse ==
    /\ []((started /\ \A r \in Reloaders : ~InsideReparse(r)) => isInitialized)
    /\ [][\A t \in Reloaders :
             (pc[t] = "p_check" /\ isInitialized /\ pc'[t] # "p_check")
                 => (pc'[t] = "r_done" /\ UNCHANGED <<shared, env, parsedFrom>>)]_vars

\* C29 witness: one reload call has returned on finding the flag set by the
\* other's parse, the other has returned too, and the flag is true
SkippedParseReturned ==
    /\ isInitialized
    /\ \A r \in Reloaders : pc[r] = "r_done"
    /\ \E r \in Reloaders : fresh[r] = "other"

====
